---- MODULE Spec2Model ----
(***************************************************************************)
(* Model of src/lib/flowise-config.ts: the FlowiseConfigManager class, the *)
(* module-level default record and endpoint table, the singleton instance  *)
(* and the createFlowiseConfig factory.                                    *)
(*                                                                         *)
(* JavaScript values are tagged records, so that values of different       *)
(* types can be compared: [string |-> s], [number |-> n], [boolean |-> b]  *)
(* and Undefined.  An object is a function from its own property names to  *)
(* values; a property that is absent is not in the DOMAIN, a property that *)
(* is present with the value undefined is in the DOMAIN.                   *)
(***************************************************************************)
EXTENDS Integers, Sequences, FiniteSets

VARIABLES
    env,                      \* process.env, the two variables the module reads
    DEFAULT_FLOWISE_CONFIG,   \* the module-level default record
    FLOWISE_ENDPOINTS,        \* the module-level endpoint table
    config,                   \* config[m]: this.config of each constructed manager
    endpoints,                \* endpoints[m]: this.endpoints of each constructed manager
    last,                     \* the call that has just completed, with its outcome
    nUpdates,                 \* history: nUpdates[m], the updateConfig calls made on m
    ctorArg,                  \* history: ctorArg[m], the argument m was constructed with
    supplied                  \* history: supplied[m][f], the value the most recent update
                              \* that had property f gave it, or f's construction-time value

prog == <<env, DEFAULT_FLOWISE_CONFIG, FLOWISE_ENDPOINTS, config, endpoints>>
hist == <<nUpdates, ctorArg, supplied>>
vars == <<prog, hist, last>>

----------------------------------------------------------------------------
(* Bounds *)

\* createFlowiseConfig and updateConfig calls in one behaviour
MaxMutations == 2

----------------------------------------------------------------------------
(* JavaScript values *)

Undefined == [undefined |-> TRUE]
Str(s) == [string |-> s]
Num(n) == [number |-> n]
Bool(b) == [boolean |-> b]

IsUndefined(v) == DOMAIN v = {"undefined"}
IsString(v) == DOMAIN v = {"string"}
IsNumber(v) == DOMAIN v = {"number"}
IsBoolean(v) == DOMAIN v = {"boolean"}

\* ToBoolean: undefined, "", 0 and false are falsy
Truthy(v) ==
    CASE IsUndefined(v) -> FALSE
      [] IsString(v) -> v.string # ""
      [] IsNumber(v) -> v.number # 0
      [] IsBoolean(v) -> v.boolean

\* a || b
Or(a, b) == IF Truthy(a) THEN a ELSE b

\* a ?? b
Nullish(a, b) == IF IsUndefined(a) THEN b ELSE a

Digit(d) == <<"0", "1", "2", "3", "4", "5", "6", "7", "8", "9">>[d + 1]

RECURSIVE Decimal(_)
Decimal(n) == IF n < 10 THEN Digit(n) ELSE Decimal(n \div 10) \o Digit(n % 10)

\* ToString, as a template literal `${v}` applies it
ToString(v) ==
    CASE IsUndefined(v) -> "undefined"
      [] IsString(v) -> v.string
      [] IsNumber(v) -> IF v.number < 0 THEN "-" \o Decimal(0 - v.number)
                                         ELSE Decimal(v.number)
      [] IsBoolean(v) -> IF v.boolean THEN "true" ELSE "false"

\* obj[key]: the own property, or undefined
Get(obj, key) == IF key \in DOMAIN obj THEN obj[key] ELSE Undefined

\* String.prototype.startsWith
StartsWith(s, prefix) ==
    /\ Len(s) >= Len(prefix)
    /\ SubSeq(s, 1, Len(prefix)) = prefix

\* { ...a, ...b }: every own property of b, present-but-undefined included,
\* replaces that of a
Spread(a, b) ==
    [f \in DOMAIN a \cup DOMAIN b |-> IF f \in DOMAIN b THEN b[f] ELSE a[f]]

\* the outcome of a call
Return(v) == [kind |-> "return", value |-> v]
Throw(e) == [kind |-> "throw", error |-> e]

\* obj with obj[key] = v assigned
Set(obj, key, v) ==
    [k \in DOMAIN obj \cup {key} |-> IF k = key THEN v ELSE obj[k]]

\* {}
EmptyObject == [f \in {} |-> Undefined]

----------------------------------------------------------------------------
(* Inputs *)

\* the properties of FlowiseConfig
Fields == {"apiKey", "baseUrl", "timeout", "retries", "enableLogging", "enableCaching"}

\* the keys of FlowiseApiEndpoints
EndpointNames ==
    {"assistants", "attachments", "documentStore", "leads", "ping",
     "prediction", "tools", "upsertHistory", "variables", "vectorUpsert"}

\* names a caller may pass to buildUrl that are not keys of the table
OtherNames == {"notARealEndpoint"}

\* the manager instances: the module's singleton and one made by the factory
Singleton == "flowiseConfig"
Created == "created"
ManagerIds == {Singleton, Created}

\* what process.env may hold for each variable
EnvValues ==
    [FLOWISE_API_KEY |-> {Undefined, Str(""), Str("env-key")},
     FLOWISE_BASE_URL |-> {Undefined, Str(""), Str("http://localhost:3000")}]

\* the values a caller supplies for each property of a Partial<FlowiseConfig>
FieldValues ==
    [apiKey |-> {Undefined, Str(""), Str("secret")},
     baseUrl |-> {Undefined, Str(""), Str("ftp://x"), Str("httpx")},
     timeout |-> {Undefined, Num(0), Num(5000)},
     retries |-> {Undefined, Num(0), Num(5)},
     enableLogging |-> {Undefined, Bool(FALSE), Bool(TRUE)},
     enableCaching |-> {Undefined, Bool(FALSE), Bool(TRUE)}]

\* partial records with one property
SinglePartials ==
    UNION {{[g \in {f} |-> v] : v \in FieldValues[f]} : f \in Fields}

\* partial records with several properties
MultiPartials ==
    {[apiKey |-> Str(""), baseUrl |-> Str("")],
     [apiKey |-> Str("secret"), baseUrl |-> Str("ftp://x")],
     [timeout |-> Num(5000), enableLogging |-> Bool(FALSE)],
     [apiKey |-> Str("secret"), baseUrl |-> Str("httpx"), timeout |-> Num(0),
      retries |-> Num(5), enableLogging |-> Undefined, enableCaching |-> Bool(FALSE)]}

\* the Partial<FlowiseConfig> records a caller supplies
Partials == {EmptyObject} \cup SinglePartials \cup MultiPartials

\* the optional second argument of buildUrl
SubPaths == {Undefined, Str(""), Str("abc123")}

----------------------------------------------------------------------------
(* The module: DEFAULT_FLOWISE_CONFIG, FLOWISE_ENDPOINTS and the class *)

DefaultConfig(e) ==
    [apiKey |-> Or(e.FLOWISE_API_KEY, Str("")),
     baseUrl |-> Or(e.FLOWISE_BASE_URL, Str("https://api.flowiseai.com")),
     timeout |-> Num(30000),
     retries |-> Num(3),
     enableLogging |-> Bool(TRUE),
     enableCaching |-> Bool(TRUE)]

EndpointTable ==
    [assistants |-> Str("/api/v1/assistants"),
     attachments |-> Str("/api/v1/attachments"),
     documentStore |-> Str("/api/v1/documents"),
     leads |-> Str("/api/v1/leads"),
     ping |-> Str("/api/v1/ping"),
     prediction |-> Str("/api/v1/prediction"),
     tools |-> Str("/api/v1/tools"),
     upsertHistory |-> Str("/api/v1/upsert-history"),
     variables |-> Str("/api/v1/variables"),
     vectorUpsert |-> Str("/api/v1/vector-upsert")]

\* constructor, were the defaults spread after the argument
constructorDefaultsLast(defaults, arg) ==
    LET cfg == IF IsUndefined(arg) THEN EmptyObject ELSE arg
    IN  Spread(cfg, defaults)

\* constructor(config = {}): the record the new manager holds
constructor(defaults, arg) ==
    LET cfg == IF IsUndefined(arg) THEN EmptyObject ELSE arg
    IN  Spread(defaults, cfg)

getConfig(c) == Return(c)

getEndpoints(e) == Return(e)

\* buildUrl, were the name looked up with a check that it is a key of the table
buildUrlChecked(c, e, endpoint, path) ==
    LET baseUrl == Get(c, "baseUrl")
        endpointPath == Get(e, endpoint)
        fullPath == IF Truthy(path)
                    THEN Str(ToString(endpointPath) \o "/" \o ToString(path))
                    ELSE endpointPath
    IN  IF endpoint \notin DOMAIN e
        THEN Throw("UnknownEndpoint")
        ELSE Return(Str(ToString(baseUrl) \o ToString(fullPath)))

\* buildUrl, were path tested with path !== undefined
buildUrlGivenPath(c, e, endpoint, path) ==
    LET baseUrl == Get(c, "baseUrl")
        endpointPath == Get(e, endpoint)
        fullPath == IF ~IsUndefined(path)
                    THEN Str(ToString(endpointPath) \o "/" \o ToString(path))
                    ELSE endpointPath
    IN  Return(Str(ToString(baseUrl) \o ToString(fullPath)))

buildUrl(c, e, endpoint, path) ==
    LET baseUrl == Get(c, "baseUrl")
        endpointPath == Get(e, endpoint)
        fullPath == IF Truthy(path)
                    THEN Str(ToString(endpointPath) \o "/" \o ToString(path))
                    ELSE endpointPath
    IN  Return(Str(ToString(baseUrl) \o ToString(fullPath)))

\* getHeaders, were apiKey tested with apiKey !== undefined
getHeadersGivenKey(c) ==
    LET headers == [k \in {"Content-Type", "User-Agent"} |->
                       IF k = "Content-Type" THEN Str("application/json")
                                             ELSE Str("Zania-Platform/1.0.0")]
    IN  Return(IF ~IsUndefined(Get(c, "apiKey"))
               THEN Set(headers, "Authorization",
                        Str("Bearer " \o ToString(Get(c, "apiKey"))))
               ELSE headers)

getHeaders(c) ==
    LET headers == [k \in {"Content-Type", "User-Agent"} |->
                       IF k = "Content-Type" THEN Str("application/json")
                                             ELSE Str("Zania-Platform/1.0.0")]
    IN  Return(IF Truthy(Get(c, "apiKey"))
               THEN Set(headers, "Authorization",
                        Str("Bearer " \o ToString(Get(c, "apiKey"))))
               ELSE headers)

\* validate, were the prefix test made only on a non-empty baseUrl
validateElse(c) ==
    LET apiKey == Get(c, "apiKey")
        baseUrl == Get(c, "baseUrl")
        e0 == <<>>
        e1 == IF ~Truthy(apiKey)
              THEN Append(e0, "FLOWISE_API_KEY is required") ELSE e0
        e2 == IF ~Truthy(baseUrl)
              THEN Append(e1, "FLOWISE_BASE_URL is required")
              ELSE IF ~StartsWith(baseUrl.string, "http")
                   THEN Append(e1, "FLOWISE_BASE_URL must start with http:// or https://")
                   ELSE e1
    IN  Return([valid |-> Len(e2) = 0, errors |-> e2])

validate(c) ==
    LET apiKey == Get(c, "apiKey")
        baseUrl == Get(c, "baseUrl")
        e0 == <<>>
        e1 == IF ~Truthy(apiKey)
              THEN Append(e0, "FLOWISE_API_KEY is required") ELSE e0
        e2 == IF ~Truthy(baseUrl)
              THEN Append(e1, "FLOWISE_BASE_URL is required") ELSE e1
    IN  IF ~IsString(baseUrl)
        THEN \* baseUrl.startsWith is read from a value that has no such method
             Throw("TypeError")
        ELSE LET e3 == IF ~StartsWith(baseUrl.string, "http")
                       THEN Append(e2, "FLOWISE_BASE_URL must start with http:// or https://")
                       ELSE e2
             IN  Return([valid |-> Len(e3) = 0, errors |-> e3])

\* updateConfig, were the record spread after the argument
updateConfigOldLast(c, newConfig) == Spread(newConfig, c)

\* the record after updateConfig(newConfig)
updateConfig(c, newConfig) == Spread(c, newConfig)

getBaseUrl(c) == Return(Get(c, "baseUrl"))

getApiKey(c) == Return(Get(c, "apiKey"))

\* getTimeout, were the default taken with ??
getTimeoutNullish(c) == Return(Nullish(Get(c, "timeout"), Num(30000)))

getTimeout(c) == Return(Or(Get(c, "timeout"), Num(30000)))

getRetries(c) == Return(Or(Get(c, "retries"), Num(3)))

\* isLoggingEnabled, were the default taken with ||
isLoggingEnabledOr(c) == Return(Or(Get(c, "enableLogging"), Bool(TRUE)))

isLoggingEnabled(c) == Return(Nullish(Get(c, "enableLogging"), Bool(TRUE)))

isCachingEnabled(c) == Return(Nullish(Get(c, "enableCaching"), Bool(TRUE)))

----------------------------------------------------------------------------
(* The state machine *)

\* the caller is between calls
None == [op |-> "none"]

\* the program state a call starts from
Snapshot ==
    [config |-> config, endpoints |-> endpoints,
     DEFAULT_FLOWISE_CONFIG |-> DEFAULT_FLOWISE_CONFIG,
     FLOWISE_ENDPOINTS |-> FLOWISE_ENDPOINTS]

Call(op, m, args, outcome) ==
    [op |-> op, mgr |-> m, args |-> args, outcome |-> outcome, before |-> Snapshot]

Constructed == DOMAIN config

Mutations ==
    nUpdates[Singleton] + nUpdates[Created]
        + (IF Created \in Constructed THEN 1 ELSE 0)

\* module load: the default record and the table are built, then the singleton
Init ==
    /\ env \in [FLOWISE_API_KEY : EnvValues.FLOWISE_API_KEY,
                FLOWISE_BASE_URL : EnvValues.FLOWISE_BASE_URL]
    /\ DEFAULT_FLOWISE_CONFIG = DefaultConfig(env)
    /\ FLOWISE_ENDPOINTS = EndpointTable
    /\ config = [m \in {Singleton} |-> constructor(DEFAULT_FLOWISE_CONFIG, Undefined)]
    /\ endpoints = [m \in {Singleton} |-> FLOWISE_ENDPOINTS]
    /\ last = None
    /\ nUpdates = [m \in ManagerIds |-> 0]
    /\ ctorArg = [m \in {Singleton} |-> Undefined]
    /\ supplied = config

\* a method that only reads: its outcome is recorded, nothing is assigned
Read(op, m, args, outcome) ==
    /\ last = None
    /\ m \in Constructed
    /\ last' = Call(op, m, args, outcome)
    /\ UNCHANGED <<prog, hist>>

CreateFlowiseConfig ==
    \E arg \in Partials \cup {Undefined} :
        /\ last = None
        /\ Created \notin Constructed
        /\ Mutations < MaxMutations
        /\ config' = Set(config, Created, constructor(DEFAULT_FLOWISE_CONFIG, arg))
        /\ endpoints' = Set(endpoints, Created, FLOWISE_ENDPOINTS)
        /\ last' = Call("createFlowiseConfig", Created, <<arg>>, Return(Created))
        /\ ctorArg' = Set(ctorArg, Created, arg)
        /\ supplied' = Set(supplied, Created, config'[Created])
        /\ UNCHANGED <<env, DEFAULT_FLOWISE_CONFIG, FLOWISE_ENDPOINTS, nUpdates>>

UpdateConfig ==
    \E m \in Constructed, newConfig \in Partials :
        /\ last = None
        /\ Mutations < MaxMutations
        /\ config' = [config EXCEPT ![m] = updateConfig(config[m], newConfig)]
        /\ last' = Call("updateConfig", m, <<newConfig>>, Return(Undefined))
        /\ nUpdates' = [nUpdates EXCEPT ![m] = @ + 1]
        /\ supplied' = [supplied EXCEPT ![m] =
                           [f \in Fields |-> IF f \in DOMAIN newConfig
                                             THEN newConfig[f] ELSE @[f]]]
        /\ UNCHANGED <<env, DEFAULT_FLOWISE_CONFIG, FLOWISE_ENDPOINTS, endpoints, ctorArg>>

GetConfig == \E m \in ManagerIds : Read("getConfig", m, <<>>, getConfig(config[m]))

GetEndpoints == \E m \in ManagerIds : Read("getEndpoints", m, <<>>, getEndpoints(endpoints[m]))

BuildUrl ==
    \E m \in ManagerIds, endpoint \in EndpointNames \cup OtherNames, path \in SubPaths :
        Read("buildUrl", m, <<endpoint, path>>,
             buildUrl(config[m], endpoints[m], endpoint, path))

GetHeaders == \E m \in ManagerIds : Read("getHeaders", m, <<>>, getHeaders(config[m]))

Validate == \E m \in ManagerIds : Read("validate", m, <<>>, validate(config[m]))

GetBaseUrl == \E m \in ManagerIds : Read("getBaseUrl", m, <<>>, getBaseUrl(config[m]))

GetApiKey == \E m \in ManagerIds : Read("getApiKey", m, <<>>, getApiKey(config[m]))

GetTimeout == \E m \in ManagerIds : Read("getTimeout", m, <<>>, getTimeout(config[m]))

GetRetries == \E m \in ManagerIds : Read("getRetries", m, <<>>, getRetries(config[m]))

IsLoggingEnabled ==
    \E m \in ManagerIds : Read("isLoggingEnabled", m, <<>>, isLoggingEnabled(config[m]))

IsCachingEnabled ==
    \E m \in ManagerIds : Read("isCachingEnabled", m, <<>>, isCachingEnabled(config[m]))

\* the caller takes the outcome and goes on to its next call
Resume ==
    /\ last # None
    /\ last' = None
    /\ UNCHANGED <<prog, hist>>

\* The module with both instances: what constructs and changes the records,
\* and getConfig to read them.
Next ==
    \/ CreateFlowiseConfig
    \/ UpdateConfig
    \/ GetConfig
    \/ Resume

Spec == Init /\ [][Next]_vars

\* The singleton alone, with every method of the class.  No factory call is
\* made, so each method is taken over the records updateConfig reaches from
\* the default record; a method reads only its own manager's record.
NextSingleton ==
    \/ UpdateConfig
    \/ GetConfig
    \/ GetEndpoints
    \/ BuildUrl
    \/ GetHeaders
    \/ Validate
    \/ GetBaseUrl
    \/ GetApiKey
    \/ GetTimeout
    \/ GetRetries
    \/ IsLoggingEnabled
    \/ IsCachingEnabled
    \/ Resume

SpecSingleton == Init /\ [][NextSingleton]_vars

----------------------------------------------------------------------------
(* Properties *)

\* the record of the manager the last call was made on
This == config[last.mgr]

\* the program state is as the last call found it
Untouched ==
    /\ config = last.before.config
    /\ endpoints = last.before.endpoints
    /\ DEFAULT_FLOWISE_CONFIG = last.before.DEFAULT_FLOWISE_CONFIG
    /\ FLOWISE_ENDPOINTS = last.before.FLOWISE_ENDPOINTS

\* what a sub-path adds to a URL: "/" and the sub-path when it is a non-empty
\* string, nothing when it is undefined or the empty string
NonEmptySuffix(path) ==
    IF IsString(path) /\ path.string # "" THEN "/" \o path.string ELSE ""

\* what a sub-path adds to a URL if every sub-path that is given counts
GivenSuffix(path) ==
    IF IsString(path) THEN "/" \o path.string ELSE ""

\* C1, as claimed: buildUrl with a name that is not one of the ten fails with
\* UnknownEndpoint and returns no URL.
C1_UnknownEndpointRaises ==
    (last.op = "buildUrl" /\ last.args[1] \notin EndpointNames)
        => last.outcome = Throw("UnknownEndpoint")

\* C1, amended: buildUrl with a name that is no property of the table raises
\* nothing; the lookup gives undefined and the call returns the string made of
\* the record's baseUrl, "undefined" and, for a non-empty sub-path, "/" and
\* the sub-path.
C1_UnknownEndpointReturnsUrl ==
    (last.op = "buildUrl" /\ last.args[1] \notin EndpointNames)
        => last.outcome =
               Return(Str(ToString(This.baseUrl) \o "undefined"
                              \o NonEmptySuffix(last.args[2])))

C1_Witness ==
    /\ last.op = "buildUrl"
    /\ last.args = <<"notARealEndpoint", Str("abc123")>>
    /\ nUpdates[last.mgr] > 0
    /\ last.outcome.kind = "return"

\* C2, as claimed: validate on apiKey "" and baseUrl "" reports exactly the
\* apiKey-missing and the baseUrl-missing message, in this order.
C2_TwoErrors ==
    (last.op = "validate" /\ This.apiKey = Str("") /\ This.baseUrl = Str(""))
        => last.outcome =
               Return([valid |-> FALSE,
                       errors |-> <<"FLOWISE_API_KEY is required",
                                    "FLOWISE_BASE_URL is required">>])

\* C2, amended: validate on apiKey "" and baseUrl "" returns valid = false
\* with exactly three messages, in this order: apiKey missing, baseUrl
\* missing, protocol prefix.
C2_ThreeErrors ==
    (last.op = "validate" /\ This.apiKey = Str("") /\ This.baseUrl = Str(""))
        => last.outcome =
               Return([valid |-> FALSE,
                       errors |-> <<"FLOWISE_API_KEY is required",
                                    "FLOWISE_BASE_URL is required",
                                    "FLOWISE_BASE_URL must start with http:// or https://">>])

C2_Witness ==
    /\ last.op = "validate"
    /\ This.apiKey = Str("")
    /\ This.baseUrl = Str("")
    /\ last.outcome.kind = "return"

\* C3: every operation other than buildUrl completes without raising, in
\* every state construction and updateConfig reach.
C3_OnlyBuildUrlRaises ==
    last.op \notin {"none", "buildUrl"} => last.outcome.kind = "return"

\* C4: on string-valued apiKey and baseUrl, validate returns valid = true
\* only if apiKey is non-empty and baseUrl is non-empty and starts with
\* "http://" or "https://".
C4_ValidImpliesProtocol ==
    (last.op = "validate" /\ IsString(This.apiKey) /\ IsString(This.baseUrl))
        => /\ last.outcome.kind = "return"
           /\ last.outcome.value.valid
                  => /\ This.apiKey.string # ""
                     /\ This.baseUrl.string # ""
                     /\ \/ StartsWith(This.baseUrl.string, "http://")
                        \/ StartsWith(This.baseUrl.string, "https://")

\* C5: updateConfig(P) sets exactly the properties P has to P's values,
\* whatever they are, raises nothing, and leaves alone the manager's other
\* properties, every other manager's record, the default record and the
\* endpoint table; so each property always holds the value of the most
\* recent update that had it, or its construction-time value.
C5_UpdateOverlaysOnlyGiven ==
    /\ \A m \in Constructed : config[m] = supplied[m]
    /\ last.op = "updateConfig"
           => LET P == last.args[1]
                  b == last.before
              IN  /\ last.outcome = Return(Undefined)
                  /\ DOMAIN This = Fields
                  /\ \A f \in Fields :
                         This[f] = IF f \in DOMAIN P THEN P[f] ELSE b.config[last.mgr][f]
                  /\ DOMAIN config = DOMAIN b.config
                  /\ \A o \in DOMAIN config \ {last.mgr} : config[o] = b.config[o]
                  /\ endpoints = b.endpoints
                  /\ DEFAULT_FLOWISE_CONFIG = b.DEFAULT_FLOWISE_CONFIG
                  /\ FLOWISE_ENDPOINTS = b.FLOWISE_ENDPOINTS

C5_Witness ==
    /\ last.op = "updateConfig"
    /\ last.mgr = Created
    /\ ctorArg[Created] = [apiKey |-> Str("secret")]
    /\ last.args[1] = [baseUrl |-> Str("ftp://x")]
    /\ config[Created].apiKey = Str("secret")
    /\ config[Created].baseUrl = Str("ftp://x")
    /\ config[Singleton] = DEFAULT_FLOWISE_CONFIG

\* the default record, from the environment inputs or their fallbacks
ExpectedDefault ==
    [apiKey |-> IF IsString(env.FLOWISE_API_KEY) /\ env.FLOWISE_API_KEY.string # ""
                THEN env.FLOWISE_API_KEY ELSE Str(""),
     baseUrl |-> IF IsString(env.FLOWISE_BASE_URL) /\ env.FLOWISE_BASE_URL.string # ""
                 THEN env.FLOWISE_BASE_URL ELSE Str("https://api.flowiseai.com"),
     timeout |-> Num(30000),
     retries |-> Num(3),
     enableLogging |-> Bool(TRUE),
     enableCaching |-> Bool(TRUE)]

\* the default record with each property of m's construction argument over it
ExpectedAtConstruction(m) ==
    [f \in Fields |-> IF f \in DOMAIN ctorArg[m] THEN ctorArg[m][f]
                                                 ELSE ExpectedDefault[f]]

\* C6: right after construction with a partial record P, or with none,
\* getConfig() is the default record with P's properties over it, and the
\* default record is as it was.
C6_ConstructionOverlaysDefaults ==
    /\ DEFAULT_FLOWISE_CONFIG = ExpectedDefault
    /\ last.op = "createFlowiseConfig"
           => /\ last.outcome = Return(Created)
              /\ config[Created] = ExpectedAtConstruction(Created)
              /\ DEFAULT_FLOWISE_CONFIG = last.before.DEFAULT_FLOWISE_CONFIG
              /\ config[Singleton] = last.before.config[Singleton]
    /\ (last.op = "getConfig" /\ nUpdates[last.mgr] = 0)
           => last.outcome = Return(ExpectedAtConstruction(last.mgr))

C6_Witness ==
    /\ last.op = "getConfig"
    /\ last.mgr = Created
    /\ nUpdates[Created] = 0
    /\ ctorArg[Created] = [timeout |-> Num(5000), enableLogging |-> Bool(FALSE)]
    /\ last.outcome.value.timeout = Num(5000)
    /\ last.outcome.value.retries = Num(3)

\* C7, as claimed: for each of the ten names buildUrl returns baseUrl,
\* the table's path and, whenever a sub-path is given, "/" and the sub-path,
\* and changes neither the record nor the table.
C7_UrlWhenSubPathGiven ==
    (last.op = "buildUrl" /\ last.args[1] \in EndpointNames)
        => /\ last.outcome =
                  Return(Str(ToString(This.baseUrl)
                                 \o FLOWISE_ENDPOINTS[last.args[1]].string
                                 \o GivenSuffix(last.args[2])))
           /\ Untouched

\* C7, amended: for each of the ten names buildUrl returns baseUrl (the text
\* "undefined" if the record's baseUrl is undefined), the table's path and,
\* when a non-empty sub-path is given, "/" and the sub-path; an empty
\* sub-path counts as none.  It changes neither the record nor the table.
C7_UrlWhenSubPathNonEmpty ==
    (last.op = "buildUrl" /\ last.args[1] \in EndpointNames)
        => /\ last.outcome =
                  Return(Str(ToString(This.baseUrl)
                                 \o FLOWISE_ENDPOINTS[last.args[1]].string
                                 \o NonEmptySuffix(last.args[2])))
           /\ last.args = <<"prediction", Str("abc123")>>
                  => last.outcome.value.string =
                         ToString(This.baseUrl) \o "/api/v1/prediction/abc123"
           /\ Untouched

C7_Witness ==
    /\ last.op = "buildUrl"
    /\ last.args = <<"prediction", Str("abc123")>>
    /\ This.baseUrl = Str("https://api.flowiseai.com")
    /\ nUpdates[last.mgr] > 0
    /\ last.outcome = Return(Str("https://api.flowiseai.com/api/v1/prediction/abc123"))

\* C8: getHeaders returns Content-Type "application/json", User-Agent
\* "Zania-Platform/1.0.0" and nothing else, but for Authorization, which is
\* there exactly when the record's apiKey is non-empty and is then "Bearer "
\* and the apiKey.
C8_HeadersFollowApiKey ==
    last.op = "getHeaders"
        => /\ last.outcome.kind = "return"
           /\ LET h == last.outcome.value
                  hasKey == IsString(This.apiKey) /\ This.apiKey.string # ""
              IN  /\ DOMAIN h = {"Content-Type", "User-Agent"}
                                    \cup (IF hasKey THEN {"Authorization"} ELSE {})
                  /\ h["Content-Type"] = Str("application/json")
                  /\ h["User-Agent"] = Str("Zania-Platform/1.0.0")
                  /\ hasKey => h["Authorization"] = Str("Bearer " \o This.apiKey.string)

C8_Witness ==
    /\ last.op = "getHeaders"
    /\ env.FLOWISE_API_KEY = Str("env-key")
    /\ nUpdates[last.mgr] > 0
    /\ This.apiKey = Str("")
    /\ "Authorization" \notin DOMAIN last.outcome.value

\* C9: isLoggingEnabled returns false when the stored flag is false, and true
\* only when it is true or absent; isCachingEnabled likewise for its flag.
C9_ExplicitFalseKept ==
    /\ last.op = "isLoggingEnabled"
           => /\ last.outcome.kind = "return"
              /\ This.enableLogging = Bool(FALSE) => last.outcome.value = Bool(FALSE)
              /\ last.outcome.value = Bool(TRUE)
                     => This.enableLogging \in {Bool(TRUE), Undefined}
    /\ last.op = "isCachingEnabled"
           => /\ last.outcome.kind = "return"
              /\ This.enableCaching = Bool(FALSE) => last.outcome.value = Bool(FALSE)
              /\ last.outcome.value = Bool(TRUE)
                     => This.enableCaching \in {Bool(TRUE), Undefined}

C9_Witness ==
    /\ last.op = "isLoggingEnabled"
    /\ This.enableLogging = Bool(FALSE)
    /\ last.outcome = Return(Bool(FALSE))

\* C10: getTimeout returns 30000 when the stored timeout is 0 or absent, the
\* stored timeout otherwise, and leaves the stored record as it is.
C10_TimeoutFalsyDefault ==
    last.op = "getTimeout"
        => /\ last.outcome =
                  Return(IF This.timeout \in {Num(0), Undefined}
                         THEN Num(30000) ELSE This.timeout)
           /\ Untouched

C10_Witness ==
    /\ last.op = "getTimeout"
    /\ This.timeout = Num(0)
    /\ last.outcome = Return(Num(30000))
    /\ last.before.config[last.mgr].timeout = Num(0)

====
